---- MODULE Spec2Model ----
(***************************************************************************)
(* The three DVID import drivers of dvid-utils as one state machine.       *)
(*   driver "A": raveler/main.go         (tile-server importer)            *)
(*   driver "B": raveler/CMakeLists.txt  (volume importer, config-driven)  *)
(*   driver "C": unnamed/part_000        (volume importer, fixed volume,   *)
(*                                        with the ctrl+c goroutine)       *)
(* One behaviour is one run of one driver.  External commands are recorded *)
(* in the history variable calls, in the order they are issued.            *)
(***************************************************************************)
EXTENDS Integers, Sequences, FiniteSets, TLC

\* ------------------------------------------------------------------ bounds
\* z-ranges "zmin,zmax" are drawn from 0..MaxZ x 0..MaxZ.
MaxZ == 1
\* At most this many interrupt signals are delivered in one run.
MaxSignals == 1
\* Longest output of the init subprocess the scan of initDatastore is checked on.
MaxInitLines == 2
\* Slices a z counter is followed for after it has wrapped to the smallest int32.
MaxWrapSlices == 2

\* ------------------------------------------------------- program constants
\* const tileSize = 1024 of the tile-server driver.
tileSize1024 == 1024
\* vol := dvid.VoxelCoord{700, 700, 620} of the fixed-volume driver.
FixedVol == <<700, 700, 620>>

\* ------------------------------------------------------------ int32 arithmetic
\* Go's int32 (dvid.VoxelCoord, dvid.Point2d and dvid.Point3d hold int32) wraps
\* around on overflow.  The sums are split so that no intermediate value leaves
\* the 32-bit range.
MaxInt32 == 2147483647
MinInt32 == -2147483647 - 1

Add32(a, b) ==
    IF a >= 0 /\ b >= 0 /\ a > MaxInt32 - b
        THEN ((a - MaxInt32) - 1) + ((b - MaxInt32) - 1)
    ELSE IF a < 0 /\ b < 0 /\ a < MinInt32 - b
        THEN ((a + MaxInt32) + 1) + ((b + MaxInt32) + 1)
    ELSE a + b

Neg32(a) == IF a = MinInt32 THEN MinInt32 ELSE -a

Sub32(a, b) == IF b = MinInt32 THEN Add32(Add32(a, MaxInt32), 1) ELSE Add32(a, -b)

\* a * b by shift and add, every partial result wrapped.
RECURSIVE MulNat32(_, _)
MulNat32(a, n) ==
    IF n = 0 THEN 0
    ELSE IF n % 2 = 1 THEN Add32(a, MulNat32(Add32(a, a), n \div 2))
    ELSE MulNat32(Add32(a, a), n \div 2)

Mul32(a, b) ==
    IF b >= 0 THEN MulNat32(a, b)
    ELSE IF b = MinInt32 THEN (IF a % 2 = 0 THEN 0 ELSE MinInt32)
    ELSE Neg32(MulNat32(a, -b))

\* Go's integer division truncates toward zero (b > 0 here: a tile edge).
Div32(a, b) == IF a >= 0 THEN a \div b ELSE (a + (b - 1)) \div b

\* ------------------------------------------------------------------- state
VARIABLES
    driver,          \* which program runs: "A", "B" or "C"
    nargs,           \* len(flag.Args())
    parseErr,        \* which positional string is malformed: "none", "first", "second"
    initOut,         \* the lines the init subprocess prints (drivers B, C)
    zrange,          \* <<zmin, zmax>> (drivers B, C)
    tileSize,        \* <<width, height>> (drivers B, C)
    vol,             \* volume extent (B: from the config file, C: fixed)
    offset,          \* <<x, y, z>> (driver A)
    size,            \* <<x, y, z>> (driver A)
    loadSuperpixels, \* flag -superpixels (driver A)
    loadGrayscale,   \* flag -grayscale (driver A)
    pc,              \* position of main
    z, y, x,         \* loop counters of main (A: z, tileY, tileX)
    numTiles,        \* driver A: tiles counted in the current slice
    uuidStr,         \* root version UUID
    linesRead,       \* lines initDatastore has read from the init subprocess
    tileXMax, tileYMax,   \* B, C: exclusive tile bounds
    startTile, endTile,   \* A: <<startTileX, startTileY>>, <<endTileX, endTileY>>
    endVoxel,        \* A: offset.AddSize(size)
    calls,           \* history: external commands issued, in order
    progress,        \* history: per-slice progress lines printed
    exitStatus,      \* "running", "0", "1", "2", or "sigint" (killed by the signal)
    usagePrinted,    \* usage() was called
    deferred,        \* C: defer runCommand("dvid", "shutdown") is registered
    notify,          \* C: signal.Notify(ctrl_c, os.Interrupt) is in force
    ctrl_c,          \* C: number of signals buffered in the channel (capacity 1)
    hpc,             \* C: position of the ctrl+c goroutine
    signals,         \* number of interrupt signals delivered so far
    intPc,           \* history: pc of main when the first signal was delivered
    intLen           \* history: Len(calls) when the first signal was delivered,
                     \* -1 while no signal has been delivered

inputs == <<driver, nargs, parseErr, initOut, zrange, tileSize, vol, offset, size,
            loadSuperpixels, loadGrayscale>>
loopv  == <<z, y, x, numTiles>>
gridv  == <<tileXMax, tileYMax, startTile, endTile, endVoxel>>
sigv   == <<notify, ctrl_c, hpc, signals, intPc, intLen>>
vars   == <<inputs, pc, loopv, uuidStr, linesRead, gridv, calls, progress, exitStatus,
            usagePrinted, deferred, sigv>>

Running == exitStatus = "running"

\* ------------------------------------------------------------------ inputs
Drivers == {"A", "B", "C"}
ParseErrs == {"none", "first", "second"}
\* A line of the init subprocess's output: whether it starts with the text
\* "Root node UUID: " and the whitespace-delimited token that follows ("" if none).
Lines == { [prefix |-> FALSE, tok |-> "x"], [prefix |-> TRUE, tok |-> ""],
           [prefix |-> TRUE, tok |-> "u1"], [prefix |-> TRUE, tok |-> "u2"] }
\* The outputs of the init subprocess the runs are checked with: nothing, one
\* matching line, and a non-matching line followed by a matching one.
InitOuts == { <<>>,
              << [prefix |-> TRUE, tok |-> "u1"] >>,
              << [prefix |-> FALSE, tok |-> "x"], [prefix |-> TRUE, tok |-> "u2"] >> }
ZRanges == (0..MaxZ) \X (0..MaxZ)
\* Tile sizes "width,height": 350 gives 2 tiles across 700, 700 gives 1, 1000 gives 0.
TileSizes == {350, 700, 1000} \X {350, 700}
\* Volume extents a configuration file of driver B declares.
ConfigVols == { <<700, 700, 620>>, <<300, 700, 620>> }
\* Offsets and sizes given to driver A.
Offsets == {0, 1500} \X {0} \X {0, 999}
Sizes == {0, 1024} \X {0, 1024} \X {0, 1}

NoInputBC == /\ initOut = <<>> /\ zrange = <<0, 0>> /\ tileSize = <<350, 350>>
             /\ vol = FixedVol
NoInputA  == /\ offset = <<0, 0, 0>> /\ size = <<0, 0, 0>>
             /\ loadSuperpixels = FALSE /\ loadGrayscale = FALSE

InitRun ==
    /\ pc = "start"
    /\ z = 0 /\ y = 0 /\ x = 0 /\ numTiles = 0
    /\ uuidStr = "" /\ linesRead = 0
    /\ tileXMax = 0 /\ tileYMax = 0
    /\ startTile = <<0, 0>> /\ endTile = <<0, 0>> /\ endVoxel = <<0, 0, 0>>
    /\ calls = <<>> /\ progress = <<>>
    /\ exitStatus = "running" /\ usagePrinted = FALSE
    /\ deferred = FALSE /\ notify = FALSE /\ ctrl_c = 0 /\ hpc = "off"
    /\ signals = 0 /\ intPc = "none" /\ intLen = -1

InitA ==
    /\ driver = "A" /\ nargs \in 0..5 /\ parseErr \in ParseErrs
    /\ offset \in Offsets /\ size \in Sizes
    /\ loadSuperpixels \in BOOLEAN /\ loadGrayscale \in BOOLEAN
    /\ NoInputBC

InitB ==
    /\ driver = "B" /\ nargs \in 0..5 /\ parseErr \in ParseErrs
    /\ initOut \in InitOuts
    /\ zrange \in ZRanges /\ tileSize \in TileSizes /\ vol \in ConfigVols
    /\ NoInputA

InitC ==
    /\ driver = "C" /\ nargs \in 0..5 /\ parseErr \in ParseErrs
    /\ initOut \in InitOuts
    /\ zrange \in ZRanges /\ tileSize \in TileSizes /\ vol = FixedVol
    /\ NoInputA

Init == InitRun /\ (InitA \/ InitB \/ InitC)

\* ----------------------------------------------------------------- helpers
\* One external command as the history records it.  by is "main" or "handler".
Call(cmd, ds, uuid, off, path, ok, by) ==
    [cmd |-> cmd, ds |-> ds, type |-> "", uuid |-> uuid, off |-> off, path |-> path,
     ok |-> ok, by |-> by]

\* "dvid dataset <name> <type>", issued by main.
DatasetCall(name, type, ok) ==
    [cmd |-> "dataset", ds |-> name, type |-> type, uuid |-> "", off |-> <<>>,
     path |-> <<>>, ok |-> ok, by |-> "main"]

\* log.Fatal / log.Fatalf / log.Fatalln: os.Exit(1); deferred calls are not run.
Fatal == exitStatus' = "1"

\* fmt.Sscanf(line, "Root node UUID: %s", &uuidStr) with err == nil && n == 1.
Matches(line) == line.prefix /\ line.tok # ""

\* initDatastore returning the token of the last matching line.
RECURSIVE initDatastoreLastMatch(_)
initDatastoreLastMatch(out) ==
    IF out = <<>> THEN ""
    ELSE IF Matches(out[Len(out)]) THEN out[Len(out)].tok
    ELSE initDatastoreLastMatch(SubSeq(out, 1, Len(out) - 1))

\* The number of lines reader.ReadLine() hands to initDatastore's loop before the
\* loop is left: up to and including the first matching line, all of them when none
\* matches.
RECURSIVE initDatastoreLines(_)
initDatastoreLines(out) ==
    IF out = <<>> THEN 0
    ELSE IF Matches(Head(out)) THEN 1
    ELSE 1 + initDatastoreLines(Tail(out))

\* initDatastore's read loop: the token of the first matching line, "" when the stream
\* ends first (log.Fatalln).
RECURSIVE initDatastore(_)
initDatastore(out) ==
    IF out = <<>> THEN ""
    ELSE IF Matches(Head(out)) THEN Head(out).tok
    ELSE initDatastore(Tail(out))

\* ------------------------------------------------ volume drivers: the tile loops
\* VolumeLoop with a failed server-add call skipped instead of ending the run.
VolumeLoopKeepsGoing(kind, dir, ext, printsProgress, after) ==
    IF z > zrange[2] THEN
        /\ pc' = after
        /\ z' = zrange[1] /\ y' = 0 /\ x' = 0
        /\ UNCHANGED <<calls, progress, exitStatus>>
    ELSE IF y >= tileYMax THEN
        /\ progress' = IF printsProgress
                       THEN Append(progress, [kind |-> kind, z |-> z,
                                              n |-> Mul32(tileXMax, tileYMax)])
                       ELSE progress
        /\ z' = Add32(z, 1) /\ y' = 0 /\ x' = 0
        /\ UNCHANGED <<pc, calls, exitStatus>>
    ELSE IF x >= tileXMax THEN
        /\ y' = Add32(y, 1) /\ x' = 0
        /\ UNCHANGED <<pc, z, calls, progress, exitStatus>>
    ELSE \E ok \in BOOLEAN :
        /\ calls' = Append(calls,
              Call("server-add", kind, uuidStr,
                   <<Mul32(x, tileSize[1]), Mul32(y, tileSize[2]),
                     Sub32(z, zrange[1])>>,
                   <<dir, z, y, x, ext>>, ok, "main"))
        /\ IF ok THEN /\ x' = Add32(x, 1)
                      /\ UNCHANGED <<pc, z, y, progress, exitStatus>>
                 ELSE /\ x' = Add32(x, 1)
                      /\ UNCHANGED <<pc, z, y, progress, exitStatus>>

\* VolumeLoop with the z loop's upper bound taken as exclusive.
VolumeLoopExclusiveZ(kind, dir, ext, printsProgress, after) ==
    IF z >= zrange[2] THEN
        /\ pc' = after
        /\ z' = zrange[1] /\ y' = 0 /\ x' = 0
        /\ UNCHANGED <<calls, progress, exitStatus>>
    ELSE IF y >= tileYMax THEN
        /\ progress' = IF printsProgress
                       THEN Append(progress, [kind |-> kind, z |-> z,
                                              n |-> Mul32(tileXMax, tileYMax)])
                       ELSE progress
        /\ z' = Add32(z, 1) /\ y' = 0 /\ x' = 0
        /\ UNCHANGED <<pc, calls, exitStatus>>
    ELSE IF x >= tileXMax THEN
        /\ y' = Add32(y, 1) /\ x' = 0
        /\ UNCHANGED <<pc, z, calls, progress, exitStatus>>
    ELSE \E ok \in BOOLEAN :
        /\ calls' = Append(calls,
              Call("server-add", kind, uuidStr,
                   <<Mul32(x, tileSize[1]), Mul32(y, tileSize[2]),
                     Sub32(z, zrange[1])>>,
                   <<dir, z, y, x, ext>>, ok, "main"))
        /\ IF ok THEN /\ x' = Add32(x, 1)
                      /\ UNCHANGED <<pc, z, y, progress, exitStatus>>
                 ELSE /\ Fatal
                      /\ UNCHANGED <<pc, z, y, x, progress>>

\* VolumeLoop with the absolute slice number in the offset's z component.
VolumeLoopAbsoluteZ(kind, dir, ext, printsProgress, after) ==
    IF z > zrange[2] THEN
        /\ pc' = after
        /\ z' = zrange[1] /\ y' = 0 /\ x' = 0
        /\ UNCHANGED <<calls, progress, exitStatus>>
    ELSE IF y >= tileYMax THEN
        /\ progress' = IF printsProgress
                       THEN Append(progress, [kind |-> kind, z |-> z,
                                              n |-> Mul32(tileXMax, tileYMax)])
                       ELSE progress
        /\ z' = Add32(z, 1) /\ y' = 0 /\ x' = 0
        /\ UNCHANGED <<pc, calls, exitStatus>>
    ELSE IF x >= tileXMax THEN
        /\ y' = Add32(y, 1) /\ x' = 0
        /\ UNCHANGED <<pc, z, calls, progress, exitStatus>>
    ELSE \E ok \in BOOLEAN :
        /\ calls' = Append(calls,
              Call("server-add", kind, uuidStr,
                   <<Mul32(x, tileSize[1]), Mul32(y, tileSize[2]),
                     z>>,
                   <<dir, z, y, x, ext>>, ok, "main"))
        /\ IF ok THEN /\ x' = Add32(x, 1)
                      /\ UNCHANGED <<pc, z, y, progress, exitStatus>>
                 ELSE /\ Fatal
                      /\ UNCHANGED <<pc, z, y, x, progress>>

\* One step of the three nested loops of a volume driver for one content kind
\* (for z := zrange[0]; z <= zrange[1]; z++ { for y < tileYMax { for x < tileXMax }}}):
\* the z test, the end of a slice, the end of a row, or one server-add call.
\* dir is the path's directory part, ext the file extension, printsProgress whether
\* the driver prints the per-slice line, after the position of main behind the loop.
VolumeLoop(kind, dir, ext, printsProgress, after) ==
    IF z > zrange[2] THEN
        /\ pc' = after
        /\ z' = zrange[1] /\ y' = 0 /\ x' = 0
        /\ UNCHANGED <<calls, progress, exitStatus>>
    ELSE IF y >= tileYMax THEN
        /\ progress' = IF printsProgress
                       THEN Append(progress, [kind |-> kind, z |-> z,
                                              n |-> Mul32(tileXMax, tileYMax)])
                       ELSE progress
        /\ z' = Add32(z, 1) /\ y' = 0 /\ x' = 0
        /\ UNCHANGED <<pc, calls, exitStatus>>
    ELSE IF x >= tileXMax THEN
        /\ y' = Add32(y, 1) /\ x' = 0
        /\ UNCHANGED <<pc, z, calls, progress, exitStatus>>
    ELSE \E ok \in BOOLEAN :
        /\ calls' = Append(calls,
              Call("server-add", kind, uuidStr,
                   <<Mul32(x, tileSize[1]), Mul32(y, tileSize[2]),
                     Sub32(z, zrange[1])>>,
                   <<dir, z, y, x, ext>>, ok, "main"))
        /\ IF ok THEN /\ x' = Add32(x, 1)
                      /\ UNCHANGED <<pc, z, y, progress, exitStatus>>
                 ELSE /\ Fatal
                      /\ UNCHANGED <<pc, z, y, x, progress>>

\* --------------------------------------------- driver C: the fixed-volume driver
\* flag.Args(), the len(args) < 3 test, args[0..3], and the two Point2d parses.
FixedArgs ==
    /\ driver = "C" /\ Running /\ pc = "start"
    /\ IF nargs < 3 THEN usagePrinted' = TRUE /\ exitStatus' = "2" /\ pc' = pc
       ELSE IF nargs < 4 THEN
            \* args[3] is out of range: run-time panic, exit status 2
            usagePrinted' = FALSE /\ exitStatus' = "2" /\ pc' = pc
       ELSE IF parseErr # "none" THEN Fatal /\ UNCHANGED <<usagePrinted, pc>>
       ELSE pc' = "init" /\ UNCHANGED <<usagePrinted, exitStatus>>
    /\ UNCHANGED <<inputs, loopv, uuidStr, linesRead, gridv, calls, progress, deferred, sigv>>

\* uuidStr := initDatastore(outputDir)
FixedInit ==
    /\ driver = "C" /\ Running /\ pc = "init"
    /\ \E started \in BOOLEAN :
          LET uuid == IF started THEN initDatastore(initOut) ELSE "" IN
          /\ calls' = Append(calls, Call("init", "", "", <<>>, <<>>, uuid # "", "main"))
          /\ linesRead' = IF started THEN initDatastoreLines(initOut) ELSE 0
          /\ IF uuid = "" THEN Fatal /\ UNCHANGED <<pc, uuidStr>>
             ELSE pc' = "serve" /\ uuidStr' = uuid /\ UNCHANGED exitStatus
    /\ UNCHANGED <<inputs, loopv, gridv, progress, usagePrinted, deferred, sigv>>

\* exec.Command("dvid", "-datastore="+outputDir, "serve").Start()
FixedServe ==
    /\ driver = "C" /\ Running /\ pc = "serve"
    /\ \E ok \in BOOLEAN :
          /\ calls' = Append(calls, Call("serve", "", "", <<>>, <<>>, ok, "main"))
          /\ IF ok THEN pc' = "sleep" /\ UNCHANGED exitStatus
                   ELSE Fatal /\ UNCHANGED pc
    /\ UNCHANGED <<inputs, loopv, uuidStr, linesRead, gridv, progress, usagePrinted, deferred, sigv>>

\* time.Sleep ends; the defer is registered, the goroutine started, Notify called.
FixedSleep ==
    /\ driver = "C" /\ Running /\ pc = "sleep"
    /\ pc' = "ds1"
    /\ deferred' = TRUE /\ hpc' = "wait" /\ notify' = TRUE
    /\ UNCHANGED <<inputs, loopv, uuidStr, linesRead, gridv, calls, progress, exitStatus,
                   usagePrinted, ctrl_c, signals, intPc, intLen>>

\* runCommand("dvid", "dataset", "grayscale", "grayscale8"): the error is dropped.
FixedDataset1 ==
    /\ driver = "C" /\ Running /\ pc = "ds1"
    /\ \E ok \in BOOLEAN :
          calls' = Append(calls, DatasetCall("grayscale", "grayscale8", ok))
    /\ pc' = "ds2"
    /\ UNCHANGED <<inputs, loopv, uuidStr, linesRead, gridv, progress, exitStatus, usagePrinted,
                   deferred, sigv>>

\* runCommand("dvid", "dataset", "labels", "labels32"), then the tile bounds.
FixedDataset2 ==
    /\ driver = "C" /\ Running /\ pc = "ds2"
    /\ \E ok \in BOOLEAN :
          calls' = Append(calls, DatasetCall("labels", "labels32", ok))
    /\ tileXMax' = Div32(vol[1], tileSize[1])
    /\ tileYMax' = Div32(vol[2], tileSize[2])
    /\ z' = zrange[1] /\ y' = 0 /\ x' = 0
    /\ pc' = "gray"
    /\ UNCHANGED <<inputs, numTiles, uuidStr, linesRead, startTile, endTile, endVoxel, progress,
                   exitStatus, usagePrinted, deferred, sigv>>

\* The grayscale loops (the file name is built with "%d-%d.png" here).
FixedGrayscale ==
    /\ driver = "C" /\ Running /\ pc = "gray"
    /\ VolumeLoop("grayscale", "z", "png", TRUE, "labels")
    /\ UNCHANGED <<inputs, numTiles, uuidStr, linesRead, gridv, usagePrinted, deferred, sigv>>

\* The label loops; behind them main returns.
FixedLabels ==
    /\ driver = "C" /\ Running /\ pc = "labels"
    /\ VolumeLoop("labels", "comps/z", "png", TRUE, "return")
    /\ UNCHANGED <<inputs, numTiles, uuidStr, linesRead, gridv, usagePrinted, deferred, sigv>>

\* FixedReturn with the deferred shutdown call left out.
FixedReturnWithoutShutdown ==
    /\ driver = "C" /\ Running /\ pc = "return"
    /\ pc' = "deferred"
    /\ UNCHANGED <<inputs, loopv, uuidStr, linesRead, gridv, calls, progress, exitStatus,
                   usagePrinted, deferred, sigv>>

\* main returns: the deferred runCommand("dvid", "shutdown") is issued.
FixedReturn ==
    /\ driver = "C" /\ Running /\ pc = "return"
    /\ calls' = Append(calls, Call("shutdown", "", "", <<>>, <<>>, TRUE, "main"))
    /\ pc' = "deferred"
    /\ UNCHANGED <<inputs, loopv, uuidStr, linesRead, gridv, progress, exitStatus, usagePrinted,
                   deferred, sigv>>

\* The deferred shutdown call has returned: the process ends with status 0.
FixedExit ==
    /\ driver = "C" /\ Running /\ pc = "deferred"
    /\ pc' = "done" /\ exitStatus' = "0"
    /\ UNCHANGED <<inputs, loopv, uuidStr, linesRead, gridv, calls, progress, usagePrinted,
                   deferred, sigv>>

\* The goroutine receives a signal from ctrl_c and issues its shutdown call.
HandlerShutdown ==
    /\ driver = "C" /\ Running /\ hpc = "wait" /\ ctrl_c > 0
    /\ ctrl_c' = ctrl_c - 1
    /\ calls' = Append(calls, Call("shutdown", "", "", <<>>, <<>>, TRUE, "handler"))
    /\ hpc' = "shutdown"
    /\ UNCHANGED <<inputs, pc, loopv, uuidStr, linesRead, gridv, progress, exitStatus,
                   usagePrinted, deferred, notify, signals, intPc, intLen>>

\* The goroutine's shutdown call has returned: os.Exit(0).
HandlerExit ==
    /\ driver = "C" /\ Running /\ hpc = "shutdown"
    /\ hpc' = "exit" /\ exitStatus' = "0"
    /\ UNCHANGED <<inputs, pc, loopv, uuidStr, linesRead, gridv, calls, progress, usagePrinted,
                   deferred, notify, ctrl_c, signals, intPc, intLen>>

\* ------------------------------------------- driver B: the config-driven driver
\* flag.Args(), the len(args) < 4 test, args[0..4], and the two Point2d parses.
ConfigArgs ==
    /\ driver = "B" /\ Running /\ pc = "start"
    /\ IF nargs < 4 THEN usagePrinted' = TRUE /\ exitStatus' = "2" /\ pc' = pc
       ELSE IF nargs < 5 THEN
            \* args[4] is out of range: run-time panic, exit status 2
            usagePrinted' = FALSE /\ exitStatus' = "2" /\ pc' = pc
       ELSE IF parseErr # "none" THEN Fatal /\ UNCHANGED <<usagePrinted, pc>>
       ELSE pc' = "init" /\ UNCHANGED <<usagePrinted, exitStatus>>
    /\ UNCHANGED <<inputs, loopv, uuidStr, linesRead, gridv, calls, progress, deferred, sigv>>

\* uuidStr := initDatastore(configFilename, outputDir)
ConfigInit ==
    /\ driver = "B" /\ Running /\ pc = "init"
    /\ \E started \in BOOLEAN :
          LET uuid == IF started THEN initDatastore(initOut) ELSE "" IN
          /\ calls' = Append(calls, Call("init", "", "", <<>>, <<>>, uuid # "", "main"))
          /\ linesRead' = IF started THEN initDatastoreLines(initOut) ELSE 0
          /\ IF uuid = "" THEN Fatal /\ UNCHANGED <<pc, uuidStr>>
             ELSE pc' = "serve" /\ uuidStr' = uuid /\ UNCHANGED exitStatus
    /\ UNCHANGED <<inputs, loopv, gridv, progress, usagePrinted, deferred, sigv>>

\* exec.Command("dvid", "serve", "dir="+outputDir).Start() and the 3 s sleep.
ConfigServe ==
    /\ driver = "B" /\ Running /\ pc = "serve"
    /\ \E ok \in BOOLEAN :
          /\ calls' = Append(calls, Call("serve", "", "", <<>>, <<>>, ok, "main"))
          /\ IF ok THEN pc' = "ds1" /\ UNCHANGED exitStatus
                   ELSE Fatal /\ UNCHANGED pc
    /\ UNCHANGED <<inputs, loopv, uuidStr, linesRead, gridv, progress, usagePrinted, deferred, sigv>>

\* exec.Command("dvid", "dataset", "grayscale", "grayscale8").Output()
ConfigDataset1 ==
    /\ driver = "B" /\ Running /\ pc = "ds1"
    /\ \E ok \in BOOLEAN :
          /\ calls' = Append(calls, DatasetCall("grayscale", "grayscale8", ok))
          /\ IF ok THEN pc' = "ds2" /\ UNCHANGED exitStatus
                   ELSE Fatal /\ UNCHANGED pc
    /\ UNCHANGED <<inputs, loopv, uuidStr, linesRead, gridv, progress, usagePrinted, deferred, sigv>>

\* exec.Command("dvid", "dataset", "labels", "labels32").Output()
ConfigDataset2 ==
    /\ driver = "B" /\ Running /\ pc = "ds2"
    /\ \E ok \in BOOLEAN :
          /\ calls' = Append(calls, DatasetCall("labels", "labels32", ok))
          /\ IF ok THEN pc' = "readvol" /\ UNCHANGED exitStatus
                   ELSE Fatal /\ UNCHANGED pc
    /\ UNCHANGED <<inputs, loopv, uuidStr, linesRead, gridv, progress, usagePrinted, deferred, sigv>>

\* dvid.ReadVolumeJSON(configFilename), then the tile bounds.
ConfigReadVolume ==
    /\ driver = "B" /\ Running /\ pc = "readvol"
    /\ \E ok \in BOOLEAN :
          IF ok THEN /\ tileXMax' = Div32(vol[1], tileSize[1])
                     /\ tileYMax' = Div32(vol[2], tileSize[2])
                     /\ z' = zrange[1] /\ y' = 0 /\ x' = 0
                     /\ pc' = "gray"
                     /\ UNCHANGED exitStatus
                ELSE /\ Fatal
                     /\ UNCHANGED <<tileXMax, tileYMax, z, y, x, pc>>
    /\ UNCHANGED <<inputs, numTiles, uuidStr, linesRead, startTile, endTile, endVoxel, calls,
                   progress, usagePrinted, deferred, sigv>>

\* The grayscale loops ("%d-%d.jpg"); no progress line is printed.
ConfigGrayscale ==
    /\ driver = "B" /\ Running /\ pc = "gray"
    /\ VolumeLoop("grayscale", "z", "jpg", FALSE, "labels")
    /\ UNCHANGED <<inputs, numTiles, uuidStr, linesRead, gridv, usagePrinted, deferred, sigv>>

\* The label loops ("%d-%d.png").
ConfigLabels ==
    /\ driver = "B" /\ Running /\ pc = "labels"
    /\ VolumeLoop("labels", "comps/z", "png", FALSE, "shutdown")
    /\ UNCHANGED <<inputs, numTiles, uuidStr, linesRead, gridv, usagePrinted, deferred, sigv>>

\* exec.Command("dvid", "shutdown").Output(), then main returns.
ConfigShutdown ==
    /\ driver = "B" /\ Running /\ pc = "shutdown"
    /\ \E ok \in BOOLEAN :
          /\ calls' = Append(calls, Call("shutdown", "", "", <<>>, <<>>, ok, "main"))
          /\ IF ok THEN pc' = "done" /\ exitStatus' = "0"
                   ELSE Fatal /\ UNCHANGED pc
    /\ UNCHANGED <<inputs, loopv, uuidStr, linesRead, gridv, progress, usagePrinted, deferred, sigv>>

\* ----------------------------------------------- driver A: the tile-server driver
\* Decimal digits of n >= 0, most significant first.
RECURSIVE Dec(_)
Dec(n) == IF n < 10 THEN <<n>> ELSE Append(Dec(n \div 10), n % 10)

RECURSIVE ZeroPad(_, _)
ZeroPad(ds, w) == IF Len(ds) >= w THEN ds ELSE ZeroPad(<<0>> \o ds, w)

\* fmt's %d: the decimal characters, a minus sign first for a negative number.
Fmtd(n) ==
    IF n = MinInt32 THEN <<"-", 2, 1, 4, 7, 4, 8, 3, 6, 4, 8>>
    ELSE IF n < 0 THEN <<"-">> \o Dec(-n)
    ELSE Dec(n)

\* fmt's %03d: width 3, zero padded, the sign counted in the width.
Fmt03d(n) ==
    IF n = MinInt32 THEN Fmtd(n)
    ELSE IF n < 0 THEN <<"-">> \o ZeroPad(Dec(-n), 2)
    ELSE ZeroPad(Dec(n), 3)

\* tileFilename with the bucket directory used only above 1000.
tileFilenameBucketAboveThousand(row, col, slice, superpixel) ==
    LET typeDir == IF superpixel THEN "s" ELSE "g" IN
    IF slice > 1000
    THEN LET sliceDir == Mul32(Div32(slice, 1000), 1000) IN
         <<Fmtd(tileSize1024), <<0>>, Fmtd(row), Fmtd(col), typeDir, Fmtd(sliceDir),
           Fmtd(slice), "png">>
    ELSE <<Fmtd(tileSize1024), <<0>>, Fmtd(row), Fmtd(col), typeDir, Fmt03d(slice), "png">>

\* tileFilename: the tile's path below the tiles directory, as the sequence of its
\* "/"-separated components, each number as the characters fmt prints for it; the
\* last two elements are the file's base name and its extension.
tileFilename(row, col, slice, superpixel) ==
    LET typeDir == IF superpixel THEN "s" ELSE "g" IN
    IF slice >= 1000
    THEN LET sliceDir == Mul32(Div32(slice, 1000), 1000) IN
         <<Fmtd(tileSize1024), <<0>>, Fmtd(row), Fmtd(col), typeDir, Fmtd(sliceDir),
           Fmtd(slice), "png">>
    ELSE <<Fmtd(tileSize1024), <<0>>, Fmtd(row), Fmtd(col), typeDir, Fmt03d(slice), "png">>

\* dvid's VoxelCoord.AddSize, after the specification: the end point offset + size.
AddSize(off, sz) == <<Add32(off[1], sz[1]), Add32(off[2], sz[2]), Add32(off[3], sz[3])>>

\* flag.Args(), the len(args) < 5 test, args[0..4], the VoxelCoord and Point3d parses.
RavelerArgs ==
    /\ driver = "A" /\ Running /\ pc = "start"
    /\ IF nargs < 5 THEN /\ usagePrinted' = TRUE /\ exitStatus' = "2"
                          /\ UNCHANGED <<pc, uuidStr, linesRead>>
       ELSE IF parseErr # "none" THEN Fatal /\ UNCHANGED <<usagePrinted, pc, uuidStr, linesRead>>
       ELSE pc' = "bounds" /\ uuidStr' = "uuid-arg"
            /\ UNCHANGED <<usagePrinted, exitStatus, linesRead>>
    /\ UNCHANGED <<inputs, loopv, gridv, calls, progress, deferred, sigv>>

\* endVoxel and the inclusive tile bounds; z := offset[2].
RavelerBounds ==
    /\ driver = "A" /\ Running /\ pc = "bounds"
    /\ endVoxel' = AddSize(offset, size)
    /\ startTile' = <<Div32(offset[1], tileSize1024), Div32(offset[2], tileSize1024)>>
    /\ endTile' = <<Div32(endVoxel'[1], tileSize1024), Div32(endVoxel'[2], tileSize1024)>>
    /\ z' = offset[3] /\ y' = startTile'[2] /\ x' = startTile'[1] /\ numTiles' = 0
    /\ pc' = "loop"
    /\ UNCHANGED <<inputs, uuidStr, linesRead, tileXMax, tileYMax, calls, progress, exitStatus,
                   usagePrinted, deferred, sigv>>

\* RavelerCall with the two kinds of tile exchanged.
RavelerCallKindsSwapped(superpixel, ok) ==
    Call("server-add", "dataset-arg", uuidStr,
         <<Mul32(x, tileSize1024), Mul32(y, tileSize1024), z>>,
         tileFilename(y, x, z, ~superpixel), ok, "main")

\* One server-add call of driver A.
RavelerCall(superpixel, ok) ==
    Call("server-add", "dataset-arg", uuidStr,
         <<Mul32(x, tileSize1024), Mul32(y, tileSize1024), z>>,
         tileFilename(y, x, z, superpixel), ok, "main")

\* One step of the loops over z, tileY (y) and tileX (x): the z test, the end of a
\* slice, the end of a row, or the loop body with its up to two server-add calls.
RavelerLoop ==
    /\ driver = "A" /\ Running /\ pc = "loop"
    /\ IF z > endVoxel[3] THEN
            /\ pc' = "done" /\ exitStatus' = "0"
            /\ UNCHANGED <<loopv, calls, progress>>
       ELSE IF y > endTile[2] THEN
            /\ progress' = Append(progress, [kind |-> "dataset-arg", z |-> z, n |-> numTiles])
            /\ z' = Add32(z, 1) /\ numTiles' = 0 /\ y' = startTile[2] /\ x' = startTile[1]
            /\ UNCHANGED <<pc, calls, exitStatus>>
       ELSE IF x > endTile[1] THEN
            /\ y' = Add32(y, 1) /\ x' = startTile[1]
            /\ UNCHANGED <<pc, z, numTiles, calls, progress, exitStatus>>
       ELSE \E okS, okG \in BOOLEAN :
            LET afterS == IF loadSuperpixels
                          THEN Append(calls, RavelerCall(TRUE, okS)) ELSE calls
                failS  == loadSuperpixels /\ ~okS
                afterG == IF loadGrayscale /\ ~failS
                          THEN Append(afterS, RavelerCall(FALSE, okG)) ELSE afterS
                failG  == loadGrayscale /\ ~failS /\ ~okG
            IN  /\ (~loadSuperpixels => okS) /\ (~(loadGrayscale /\ ~failS) => okG)
                /\ calls' = afterG
                /\ IF failS \/ failG
                   THEN Fatal /\ UNCHANGED <<pc, loopv, progress>>
                   ELSE /\ x' = Add32(x, 1) /\ numTiles' = numTiles + 1
                        /\ UNCHANGED <<pc, z, y, progress, exitStatus>>
    /\ UNCHANGED <<inputs, uuidStr, linesRead, gridv, usagePrinted, deferred, sigv>>

\* ------------------------------------------------------------ the environment
\* An interrupt signal (ctrl+c) reaches the driver process.  With Notify in force
\* it is sent to ctrl_c without blocking (dropped when the buffer is full);
\* otherwise the Go runtime's default applies and the process is killed.
Interrupt ==
    /\ Running /\ signals < MaxSignals
    /\ signals' = signals + 1
    /\ intPc' = IF signals = 0 THEN pc ELSE intPc
    /\ intLen' = IF signals = 0 THEN Len(calls) ELSE intLen
    /\ IF notify THEN /\ ctrl_c' = 1
                      /\ UNCHANGED exitStatus
                 ELSE /\ exitStatus' = "sigint"
                      /\ UNCHANGED ctrl_c
    /\ UNCHANGED <<inputs, pc, loopv, uuidStr, linesRead, gridv, calls, progress, usagePrinted,
                   deferred, notify, hpc>>

\* ------------------------------------------------------------- specification
Next ==
    \/ RavelerArgs \/ RavelerBounds \/ RavelerLoop
    \/ ConfigArgs \/ ConfigInit \/ ConfigServe \/ ConfigDataset1 \/ ConfigDataset2
    \/ ConfigReadVolume \/ ConfigGrayscale \/ ConfigLabels \/ ConfigShutdown
    \/ FixedArgs \/ FixedInit \/ FixedServe \/ FixedSleep \/ FixedDataset1
    \/ FixedDataset2 \/ FixedGrayscale \/ FixedLabels \/ FixedReturn \/ FixedExit
    \/ HandlerShutdown \/ HandlerExit
    \/ Interrupt

Spec == Init /\ [][Next]_vars

\* ------------------------------------------------------- vocabulary of the claims
Terminated == exitStatus # "running"
IsImport(c) == c.cmd = "server-add"
IsShutdown(c) == c.cmd = "shutdown"
ImportIdx == { i \in DOMAIN calls : IsImport(calls[i]) }
ShutdownIdx == { i \in DOMAIN calls : IsShutdown(calls[i]) }
FailedImportIdx == { i \in ImportIdx : ~calls[i].ok }
\* The first interrupt signal arrived while main was in one of the two import phases.
InterruptedImporting == intPc \in {"gray", "labels"}
\* The first interrupt signal arrived after the server process had been started.
InterruptedAfterServerStart ==
    intPc \in {"sleep", "ds1", "ds2", "gray", "labels", "return", "deferred"}

\* ---------------------------------------------------------------------- C1
\* C1: in the fixed-volume driver, when a tile import call has failed and the
\* process has terminated, a shutdown call was issued after the failing call.
C1_ShutdownAfterFailedImport ==
    (driver = "C" /\ Terminated) =>
        \A i \in FailedImportIdx : \E j \in ShutdownIdx : j > i

\* ---------------------------------------------------------------------- C2
\* C2: in the fixed-volume driver, a terminated run that received an interrupt
\* signal during an import phase has issued exactly one shutdown call, the
\* goroutine's and main's deferred one counted together.  (Runs in which an import
\* call failed are the subject of C1 and are left aside here.)
C2_ExactlyOneShutdown ==
    (driver = "C" /\ Terminated /\ InterruptedImporting /\ FailedImportIdx = {}) =>
        Cardinality(ShutdownIdx) = 1

\* ---------------------------------------------------------------------- C3
\* C3: in the fixed-volume driver, no server-add call is issued after an interrupt
\* signal was delivered during an import phase.
C3_NoImportAfterInterrupt ==
    (driver = "C" /\ InterruptedImporting) =>
        \A i \in ImportIdx : i <= intLen

\* ---------------------------------------------------------------------- C4
\* C4: in the fixed-volume driver, a run that received an interrupt signal during
\* an import phase ends with a shutdown call issued after the signal and with exit
\* status 0.
C4_InterruptEndsInShutdownAndSuccess ==
    (driver = "C" /\ Terminated /\ InterruptedImporting) =>
        /\ exitStatus = "0"
        /\ \E j \in ShutdownIdx : j > intLen

\* ---------------------------------------------------------------------- C5
\* C5: in the fixed-volume driver, a run interrupted at any point after the server
\* process was started (the settling delay and dataset creation included) has
\* issued a shutdown call by the time the process has exited.
C5_InterruptAfterServeShutsDown ==
    (driver = "C" /\ Terminated /\ InterruptedAfterServerStart) =>
        \E j \in ShutdownIdx : j > intLen

\* ---------------------------------------------------------------------- C6
\* C6: in all three drivers, a failed server-add call is the last server-add call
\* of the run.
C6_FailedImportIsLast ==
    \A i \in FailedImportIdx : \A j \in ImportIdx : j <= i

\* A run that stopped at a failed import with a tile of the same row still to do,
\* after an earlier import had succeeded.
C6_Witness ==
    /\ Terminated /\ exitStatus = "1"
    /\ driver \in {"B", "C"} /\ pc = "gray"
    /\ FailedImportIdx = {Len(calls)}
    /\ Cardinality(ImportIdx) >= 2
    /\ x + 1 < tileXMax

\* ---------------------------------------------------------------------- C7
\* Positional arguments each driver's usage text names.
C7_Required == [d \in Drivers |-> IF d = "C" THEN 4 ELSE 5]

\* C7: a run given fewer positional arguments than the driver requires (and not
\* interrupted) prints the usage text and exits with status 2 without having issued
\* any external command.
C7_TooFewArgsIsUsageError ==
    (nargs < C7_Required[driver] /\ Terminated /\ signals = 0) =>
        /\ usagePrinted
        /\ exitStatus = "2"
        /\ calls = <<>>

\* ---------------------------------------------------------------------- C8
VolumeDriver == driver \in {"B", "C"}
AllCallsOk == \A i \in DOMAIN calls : calls[i].ok

\* C8: in the two volume drivers, as long as a run has met no failed call and no
\* interrupt, its external calls are: init, serve, dataset grayscale, dataset
\* labels, then server-add calls carrying the UUID read from init's output, then
\* at most one shutdown call, which is the last call; a run that ended with
\* status 0 has issued the four setup calls and that shutdown call.
C8_CleanRunCallOrder ==
    (VolumeDriver /\ signals = 0 /\ AllCallsOk) =>
        /\ \A i \in DOMAIN calls :
              IF i = 1 THEN calls[i].cmd = "init"
              ELSE IF i = 2 THEN calls[i].cmd = "serve"
              ELSE IF i = 3 THEN /\ calls[i].cmd = "dataset"
                                 /\ calls[i].ds = "grayscale"
                                 /\ calls[i].type = "grayscale8"
              ELSE IF i = 4 THEN /\ calls[i].cmd = "dataset"
                                 /\ calls[i].ds = "labels"
                                 /\ calls[i].type = "labels32"
              ELSE \/ /\ IsImport(calls[i])
                      /\ calls[i].uuid = initDatastore(initOut)
                      /\ calls[i].uuid # ""
                   \/ /\ IsShutdown(calls[i])
                      /\ i = Len(calls)
        /\ exitStatus = "0" =>
              /\ Len(calls) >= 5
              /\ IsShutdown(calls[Len(calls)])
              /\ Cardinality(ShutdownIdx) = 1

\* A clean run of the fixed-volume driver that imported tiles and ended with
\* status 0, the UUID being the one of the second line of init's output.
C8_Witness ==
    /\ driver = "C" /\ exitStatus = "0" /\ signals = 0 /\ AllCallsOk
    /\ Cardinality(ImportIdx) >= 4
    /\ uuidStr = "u2"

\* ---------------------------------------------------------------------- C9
ImportCalls == SelectSeq(calls, IsImport)
C9_Rows == vol[2] \div tileSize[2]
C9_Cols == vol[1] \div tileSize[1]
C9_Slices == IF zrange[2] >= zrange[1] THEN zrange[2] - zrange[1] + 1 ELSE 0
\* Import calls of one kind: (zmax - zmin + 1) * R * C.
C9_PerKind == C9_Slices * C9_Rows * C9_Cols
\* The i-th tile in z-ascending, then row-ascending, then column-ascending order.
C9_Tile(i) ==
    << zrange[1] + ((i - 1) \div (C9_Rows * C9_Cols)),
       ((i - 1) \div C9_Cols) % C9_Rows,
       (i - 1) % C9_Cols >>
C9_LoopsDone == pc \in {"return", "deferred", "shutdown", "done"}

\* C9: in the two volume drivers the server-add calls issued so far are a prefix of:
\* the (zmax - zmin + 1) * R * C grayscale tiles in (z, row, column) order followed
\* by the same tiles for labels; once main is past both loops, all of them have
\* been issued.
C9_ImportCountAndOrder ==
    VolumeDriver =>
        /\ Len(ImportCalls) <= 2 * C9_PerKind
        /\ \A k \in DOMAIN ImportCalls :
              LET c == ImportCalls[k]
                  tile == <<c.path[2], c.path[3], c.path[4]>>
              IN  IF k <= C9_PerKind
                  THEN c.ds = "grayscale" /\ tile = C9_Tile(k)
                  ELSE c.ds = "labels" /\ tile = C9_Tile(k - C9_PerKind)
        /\ C9_LoopsDone => Len(ImportCalls) = 2 * C9_PerKind

\* A completed run over two slices of a 2 x 2 grid: 8 grayscale and 8 label calls.
C9_Witness ==
    /\ VolumeDriver /\ pc = "done" /\ exitStatus = "0"
    /\ C9_Rows = 2 /\ C9_Cols = 2 /\ C9_Slices = 2
    /\ Len(ImportCalls) = 16

\* ---------------------------------------------------------------------- C10
\* The tile-server driver's bound computation alone, on offsets and sizes from the
\* whole non-negative int32 range.
WideOffsets == {0, 1023, 1024, 5000, MaxInt32}
WideSizes == {0, 1, 1024, MaxInt32}

BoundsInit ==
    /\ InitRun
    /\ driver = "A" /\ nargs = 5 /\ parseErr = "none"
    /\ offset \in WideOffsets \X WideOffsets \X {0}
    /\ size \in WideSizes \X WideSizes \X {0}
    /\ loadSuperpixels = FALSE /\ loadGrayscale = FALSE
    /\ NoInputBC

BoundsNext == RavelerArgs \/ RavelerBounds

SpecBounds == BoundsInit /\ [][BoundsNext]_vars

\* floor((a + b) / t) for a, b >= 0, without forming a + b.
FloorSumDiv(a, b, t) == (a \div t) + (b \div t) + (((a % t) + (b % t)) \div t)

\* C10: in the tile-server driver, for non-negative offset and size, on each
\* horizontal axis startTile = floor(offset / 1024),
\* endTile = floor((offset + size) / 1024), and startTile <= endTile.
C10_TileBounds ==
    (driver = "A" /\ pc = "loop") =>
        \A a \in 1..2 :
            /\ startTile[a] = offset[a] \div tileSize1024
            /\ endTile[a] = FloorSumDiv(offset[a], size[a], tileSize1024)
            /\ startTile[a] <= endTile[a]


\* ---------------------------------------------------------------------- C11
\* C11: a horizontal extent that is nonzero but smaller than one tile edge still
\* has its single covering tile imported in every z-slice: once a volume driver is
\* past its loops, every slice of the z-range has a grayscale and a label import;
\* once the tile-server driver has ended with status 0 with a content flag set,
\* every slice has an import at the tile of index floor(offset / 1024).
C11_CoveringTileImported ==
    /\ (VolumeDriver /\ C9_LoopsDone /\ vol[1] > 0 /\ vol[2] > 0) =>
          \A zz \in zrange[1]..zrange[2] : \A kind \in {"grayscale", "labels"} :
              \E i \in ImportIdx : calls[i].ds = kind /\ calls[i].path[2] = zz
    /\ (driver = "A" /\ exitStatus = "0" /\ (loadSuperpixels \/ loadGrayscale)) =>
          \A zz \in offset[3]..(offset[3] + size[3]) :
              \E i \in ImportIdx :
                  /\ calls[i].off[3] = zz
                  /\ calls[i].off[1] = (offset[1] \div tileSize1024) * tileSize1024
                  /\ calls[i].off[2] = (offset[2] \div tileSize1024) * tileSize1024


\* ---------------------------------------------------------------------- C12
\* The tile-server driver on single tiles: rows 0 and 2, columns 0 and 3, and
\* slices on both sides of the thousands.
PathSlices == {0, 7, 42, 100, 999, 1000, 1001, 1500, 1999, 2000, 12345}

PathInit ==
    /\ InitRun
    /\ driver = "A" /\ nargs = 5 /\ parseErr = "none"
    /\ offset \in {0, 3 * tileSize1024} \X {0, 2 * tileSize1024} \X PathSlices
    /\ size = <<0, 0, 0>>
    /\ loadSuperpixels \in BOOLEAN /\ loadGrayscale \in BOOLEAN
    /\ NoInputBC

PathNext == RavelerArgs \/ RavelerBounds \/ RavelerLoop

SpecPath == PathInit /\ [][PathNext]_vars

\* The number a sequence of decimal digits denotes.
RECURSIVE C12_Value(_)
C12_Value(ds) == IF ds = <<>> THEN 0 ELSE 10 * C12_Value(SubSeq(ds, 1, Len(ds) - 1)) + ds[Len(ds)]

\* ds is n >= 0 printed in decimal without leading zeros.
C12_Plain(ds, n) ==
    /\ Len(ds) >= 1
    /\ \A k \in DOMAIN ds : ds[k] \in 0..9
    /\ Len(ds) > 1 => ds[1] # 0
    /\ C12_Value(ds) = n

\* The i-th call of driver A is the superpixel call of its tile.
C12_IsSuperpixelCall(i) ==
    IF loadSuperpixels /\ loadGrayscale THEN i % 2 = 1 ELSE loadSuperpixels

\* C12: the path of every server-add call of the tile-server driver, for tile row
\* row, column col and slice zz, is 1024/0/<row>/<col>/<kind>/<bucket>/<zz>.png with
\* bucket = floor(zz / 1000) * 1000 and zz without leading zeros when zz >= 1000,
\* and 1024/0/<row>/<col>/<kind>/<zzz>.png with zz zero-padded to three digits when
\* zz < 1000, kind being "s" for superpixels and "g" otherwise; (2, 3, 1500, g) gives
\* 1024/0/2/3/g/1000/1500.png and (2, 3, 42, s) gives 1024/0/2/3/s/042.png.
C12_TilePath ==
    driver = "A" =>
        \A i \in ImportIdx :
            LET c == calls[i]
                row == c.off[2] \div tileSize1024
                col == c.off[1] \div tileSize1024
                zz == c.off[3]
                sp == C12_IsSuperpixelCall(i)
                p == c.path
            IN  /\ p[1] = <<1, 0, 2, 4>> /\ p[2] = <<0>>
                /\ C12_Plain(p[3], row) /\ C12_Plain(p[4], col)
                /\ p[5] = (IF sp THEN "s" ELSE "g")
                /\ p[Len(p)] = "png"
                /\ IF zz >= 1000
                   THEN /\ Len(p) = 8
                        /\ C12_Plain(p[6], (zz \div 1000) * 1000)
                        /\ C12_Plain(p[7], zz)
                   ELSE /\ Len(p) = 7
                        /\ p[6] = <<zz \div 100, (zz \div 10) % 10, zz % 10>>
                /\ (row = 2 /\ col = 3 /\ zz = 1500 /\ ~sp) =>
                       p = << <<1, 0, 2, 4>>, <<0>>, <<2>>, <<3>>, "g",
                              <<1, 0, 0, 0>>, <<1, 5, 0, 0>>, "png" >>
                /\ (row = 2 /\ col = 3 /\ zz = 42 /\ sp) =>
                       p = << <<1, 0, 2, 4>>, <<0>>, <<2>>, <<3>>, "s", <<0, 4, 2>>, "png" >>

\* A run at tile row 2, column 3 of slice 1500 has issued its grayscale call with
\* the path of the first example.
C12_Witness ==
    /\ driver = "A" /\ offset = <<3 * tileSize1024, 2 * tileSize1024, 1500>>
    /\ \E i \in ImportIdx :
          /\ ~C12_IsSuperpixelCall(i)
          /\ calls[i].path = << <<1, 0, 2, 4>>, <<0>>, <<2>>, <<3>>, "g",
                                <<1, 0, 0, 0>>, <<1, 5, 0, 0>>, "png" >>


\* ---------------------------------------------------------------------- C13
\* C13: the volume drivers read slice z, tile row y, column x of the grayscale
\* volume from z/<z>/<y>-<x>.jpg and of the label volume from comps/z/<z>/<y>-<x>.png.
C13_VolumePaths ==
    VolumeDriver =>
        \A i \in ImportIdx :
            /\ calls[i].ds = "grayscale" =>
                   calls[i].path[1] = "z" /\ calls[i].path[5] = "jpg"
            /\ calls[i].ds = "labels" =>
                   calls[i].path[1] = "comps/z" /\ calls[i].path[5] = "png"


\* ---------------------------------------------------------------------- C14
\* C14: in the volume drivers the offset of the import call for slice zz, tile row
\* r and column c is <<c * tileWidth, r * tileHeight, zz - zmin>> (0 at zz = zmin,
\* zmax - zmin at zz = zmax) while the path carries the absolute zz; in the
\* tile-server driver the offset is <<tileX * 1024, tileY * 1024, zz>>, zz absolute.
C14_Offsets ==
    \A i \in ImportIdx :
        LET c == calls[i] IN
        IF VolumeDriver
        THEN /\ c.off = <<c.path[4] * tileSize[1], c.path[3] * tileSize[2],
                          c.path[2] - zrange[1]>>
             /\ c.path[2] \in zrange[1]..zrange[2]
             /\ c.path[2] = zrange[1] => c.off[3] = 0
             /\ c.path[2] = zrange[2] => c.off[3] = zrange[2] - zrange[1]
        ELSE /\ c.off = <<C12_Value(c.path[4]) * tileSize1024,
                          C12_Value(c.path[3]) * tileSize1024,
                          C12_Value(c.path[Len(c.path) - 1])>>
             /\ c.off[3] \in offset[3]..(offset[3] + size[3])

\* A volume driver whose z-range starts at 1 has imported a tile of slice 1, with
\* offset z 0.
C14_Witness ==
    /\ VolumeDriver /\ zrange = <<1, 1>>
    /\ \E i \in ImportIdx : calls[i].path[2] = 1 /\ calls[i].off[3] = 0


\* ---------------------------------------------------------------------- C15
\* C15: in the volume drivers a failed dataset-creation call ends the run: no tile
\* import call follows it, and once the run has ended its exit status is a failure.
C15_DatasetFailureIsFatal ==
    VolumeDriver =>
        \A i \in DOMAIN calls :
            (calls[i].cmd = "dataset" /\ ~calls[i].ok) =>
                /\ \A j \in ImportIdx : j < i
                /\ Terminated => exitStatus = "1"


\* ---------------------------------------------------------------------- C16
\* The volume drivers on every output of the init subprocess of at most
\* MaxInitLines lines, one slice of one tile, no signal.
ScanOuts == UNION { [1..n -> Lines] : n \in 0..MaxInitLines }

ScanInit ==
    /\ InitRun
    /\ driver \in {"B", "C"} /\ nargs = 5 /\ parseErr = "none"
    /\ initOut \in ScanOuts
    /\ zrange = <<0, 0>> /\ tileSize = <<700, 700>> /\ vol = FixedVol
    /\ NoInputA

ScanNext ==
    \/ ConfigArgs \/ ConfigInit \/ ConfigServe \/ ConfigDataset1 \/ ConfigDataset2
    \/ ConfigReadVolume \/ ConfigGrayscale \/ ConfigLabels \/ ConfigShutdown
    \/ FixedArgs \/ FixedInit \/ FixedServe \/ FixedSleep \/ FixedDataset1
    \/ FixedDataset2 \/ FixedGrayscale \/ FixedLabels \/ FixedReturn \/ FixedExit

SpecScan == ScanInit /\ [][ScanNext]_vars

\* Line k of the init output reads "Root node UUID: <token>" with a token.
C16_MatchAt(k) == initOut[k].prefix /\ initOut[k].tok # ""

\* C16: in the volume drivers the UUID initDatastore returns is the token of the
\* first line of the init output of the form "Root node UUID: <token>", the lines
\* before it are skipped and no line after it is read, and every later call
\* carries that token; when no line matches, the run ends fatally with the init
\* call as its only call (no serve, dataset, import or shutdown call).
C16_FirstMatchOrFatal ==
    /\ uuidStr # "" =>
          \E k \in DOMAIN initOut :
              /\ C16_MatchAt(k)
              /\ \A j \in 1..(k - 1) : ~C16_MatchAt(j)
              /\ uuidStr = initOut[k].tok
              /\ linesRead = k
              /\ \A i \in ImportIdx : calls[i].uuid = initOut[k].tok
    /\ (\A k \in DOMAIN initOut : ~C16_MatchAt(k)) =>
          /\ uuidStr = ""
          /\ Len(calls) <= 1
          /\ \A i \in DOMAIN calls : calls[i].cmd = "init" /\ exitStatus = "1"
    /\ (calls # <<>> /\ exitStatus # "1") => uuidStr # ""

\* Two matching lines with different tokens: the first token has been returned and a tile imported under it.
C16_Witness ==
    /\ Len(initOut) = 2 /\ C16_MatchAt(1) /\ C16_MatchAt(2)
    /\ initOut[1].tok = "u1" /\ initOut[2].tok = "u2"
    /\ uuidStr = "u1" /\ linesRead = 1
    /\ ImportIdx # {}

\* No line matches: the run has ended in the init call.
C16_WitnessFatal ==
    /\ initOut # <<>> /\ \A k \in DOMAIN initOut : ~C16_MatchAt(k)
    /\ Len(calls) = 1 /\ exitStatus = "1"


\* ---------------------------------------------------------------------- C17
\* The import calls of the tile-server driver of one kind ("s" or "g") at one offset.
C17_CallsAt(kind, off) ==
    { i \in ImportIdx : calls[i].path[5] = kind /\ calls[i].off = off }

\* The tile grid and the slices the tile-server driver's inputs describe.
C17_Cols == (offset[1] \div tileSize1024)..((offset[1] + size[1]) \div tileSize1024)
C17_Rows == (offset[2] \div tileSize1024)..((offset[2] + size[2]) \div tileSize1024)
C17_Slices == offset[3]..(offset[3] + size[3])

C17_WitnessNoFlag ==
    /\ driver = "A" /\ exitStatus = "0" /\ ~loadSuperpixels /\ ~loadGrayscale
    /\ Len(progress) = 2 /\ calls = <<>>


\* ---------------------------------------------------------------------- C18
\* The import calls a volume driver has issued for dataset kind and slice zz.
C18_VolumeCalls(kind, zz) ==
    { i \in ImportIdx : calls[i].ds = kind /\ calls[i].path[2] = zz }

\* C18: in every driver, each z-slice of each content kind that has completed has
\* a progress line whose count is the number of import calls issued for that slice
\* and kind (checked on runs that are past their import loops).
C18_ProgressCountsImports ==
    /\ (VolumeDriver /\ C9_LoopsDone) =>
          \A kind \in {"grayscale", "labels"} : \A zz \in zrange[1]..zrange[2] :
              \E k \in DOMAIN progress :
                  /\ progress[k].kind = kind /\ progress[k].z = zz
                  /\ progress[k].n = Cardinality(C18_VolumeCalls(kind, zz))
    /\ (driver = "A" /\ exitStatus = "0") =>
          \A zz \in C17_Slices :
              \E k \in DOMAIN progress :
                  /\ progress[k].z = zz
                  /\ \A kind \in {"s", "g"} :
                        (IF kind = "s" THEN loadSuperpixels ELSE loadGrayscale) =>
                            progress[k].n =
                                Cardinality({ i \in ImportIdx : /\ calls[i].path[5] = kind
                                                                /\ calls[i].off[3] = zz })


\* ---------------------------------------------------------------------- C19
\* The drivers on z-ranges that end at or next to the largest int32, one tile per
\* slice, no signal.  A z counter that has wrapped is followed for MaxWrapSlices
\* slices.
WrapZRanges == { <<MaxInt32 - 1, MaxInt32 - 1>>, <<MaxInt32 - 1, MaxInt32>>,
                 <<MaxInt32, MaxInt32>> }

WrapInit ==
    /\ InitRun
    /\ nargs = 5 /\ parseErr = "none"
    /\ \/ /\ driver = "A"
          /\ offset = <<0, 0, MaxInt32 - 1>> /\ size \in {<<0, 0, 0>>, <<0, 0, 1>>}
          /\ loadSuperpixels \in BOOLEAN /\ loadGrayscale \in BOOLEAN
          /\ NoInputBC
       \/ /\ driver \in {"B", "C"}
          /\ initOut = << [prefix |-> TRUE, tok |-> "u1"] >>
          /\ zrange \in WrapZRanges /\ tileSize = <<700, 700>> /\ vol = FixedVol
          /\ NoInputA

WrapCap == z >= 0 \/ z < MinInt32 + MaxWrapSlices

\* The loop steps, not followed beyond the cap.
WrapRavelerLoop == WrapCap /\ RavelerLoop
WrapConfigGrayscale == WrapCap /\ ConfigGrayscale
WrapConfigLabels == WrapCap /\ ConfigLabels
WrapFixedGrayscale == WrapCap /\ FixedGrayscale
WrapFixedLabels == WrapCap /\ FixedLabels

WrapNext ==
    \/ RavelerArgs \/ RavelerBounds \/ WrapRavelerLoop
    \/ ConfigArgs \/ ConfigInit \/ ConfigServe \/ ConfigDataset1 \/ ConfigDataset2
    \/ ConfigReadVolume \/ WrapConfigGrayscale \/ WrapConfigLabels \/ ConfigShutdown
    \/ FixedArgs \/ FixedInit \/ FixedServe \/ FixedSleep \/ FixedDataset1
    \/ FixedDataset2 \/ WrapFixedGrayscale \/ WrapFixedLabels \/ FixedReturn \/ FixedExit

SpecWrap == WrapInit /\ [][WrapNext]_vars

\* C19: for every z-range with zmin <= zmax up to zmax = 2^31 - 1 the import loops
\* end: no z counter wraps around, that is, whenever a loop's test z <= zmax is
\* true the counter lies between zmin and zmax, so each pass brings it closer to
\* the end of the range.
C19_LoopCountersStayInRange ==
    /\ (VolumeDriver /\ Running /\ pc \in {"gray", "labels"} /\ z <= zrange[2]) =>
          z >= zrange[1]
    /\ (driver = "A" /\ Running /\ pc = "loop" /\ z <= endVoxel[3]) =>
          z >= offset[3]

====
